---- MODULE Spec2Model ----
\* Plot-job orchestrator of chia/plotting/create_plot.py (create_plot) and the
\* command-line entry of chia/plotter/plotter.py, as a state machine over a
\* small file system, a key store and the calls made to the plotting engine.
EXTENDS Integers, Sequences, FiniteSets, TLC

VARIABLES dirs, files, keychain, pc, args, test_private_keys, loc, calls, hist

vars == <<dirs, files, keychain, pc, args, test_private_keys, loc, calls, hist>>

----------------------------------------------------------------------------
\* Bounds and program constants

\* plot sizes tried: MinPlotSize - SizeSpan .. MinPlotSize + SizeSpan
SizeSpan == 1
\* phase selectors tried: 0 .. MaxPhase (the option is any integer)
MaxPhase == 3
\* the floor of create_plot: "k under 22 is not supported"
MinPlotSize == 22

Jobs == {1, 2}
None == "None"

Sizes == (MinPlotSize - SizeSpan) .. (MinPlotSize + SizeSpan)
Phases == 0 .. MaxPhase

\* Directories: W is the process's working directory, AB lies inside A.
Cwd == "W"
Paths == {"W", "A", "AB", "O"}
Parent(p) == IF p = "AB" THEN "A" ELSE None
Ancestors(p) == IF Parent(p) = None THEN {} ELSE {Parent(p)}

PlotName == "plot"
TempName == "table.tmp"
MissingAttr == [dir |-> None, name |-> None]
FilePaths == {[dir |-> d, name |-> PlotName] : d \in {"W", "O"}}

\* Hex inputs of the key options; BadHex does not decode.
BadHex == "zz"
FarmerHex == "hexF"
PoolHex == "hexP"
PoolAddress == "xch1pool"
BadAddress == "xch1bad"
Fingerprints == {"fp1", "fp2"}
Keychains == {<<>>, <<"fp1">>, <<"fp2", "fp1">>}

----------------------------------------------------------------------------
\* File system helpers

\* chia.util.path.mkdir: create the directory and its missing parents
mkdir(ds, p) == ds \cup {p} \cup Ancestors(p)

IsEmptyDir(ds, fs, p) ==
    /\ \A f \in fs : f[1] # p
    /\ \A c \in ds : Parent(c) # p

\* Path.rmdir succeeds on an existing empty directory and raises otherwise
RmdirOk(ds, fs, p) == p \in ds /\ IsEmptyDir(ds, fs, p)

\* Path.exists of a file path
FileExists(fs, fp) == <<fp.dir, fp.name>> \in fs

----------------------------------------------------------------------------
\* Key store and key conversions

\* Keychain.get_private_key_by_fingerprint / get_first_private_key
GetPrivateKeyByFingerprint(kc, fp) ==
    IF \E i \in 1..Len(kc) : kc[i] = fp THEN "sk:" \o fp ELSE None

GetFirstPrivateKey(kc) == IF kc = <<>> THEN None ELSE "sk:" \o kc[1]

\* G1Element.from_bytes(bytes.fromhex(h)): "Invalid" stands for the raised error
G1FromHex(h) ==
    CASE h = FarmerHex -> "g1:F"
      [] h = PoolHex   -> "g1:P"
      [] OTHER         -> "Invalid"

\* decode_puzzle_hash(address)
DecodePuzzleHash(a) == IF a = PoolAddress THEN "ph:pool" ELSE "Invalid"

MasterSkToFarmerPk(sk) == "farmer(" \o sk \o ")"
MasterSkToPoolPk(sk) == "pool(" \o sk \o ")"

\* LookupKey with the first key taken when the fingerprint is not found
LookupKeyFallback(kc, fp) ==
    IF fp # None /\ GetPrivateKeyByFingerprint(kc, fp) # None
    THEN GetPrivateKeyByFingerprint(kc, fp)
    ELSE GetFirstPrivateKey(kc)

\* Both lookups of create_plot.py read the key store the same way.
LookupKey(kc, fp) ==
    IF fp # None THEN GetPrivateKeyByFingerprint(kc, fp) ELSE GetFirstPrivateKey(kc)

\* get_farmer_public_key: "Raise" stands for the RuntimeError("No keys, ...")
get_farmer_public_key(kc, alt_fingerprint) ==
    LET sk_ent == LookupKey(kc, alt_fingerprint)
    IN  IF sk_ent = None THEN "Raise" ELSE MasterSkToFarmerPk(sk_ent)

\* get_pool_public_key
get_pool_public_key(kc, alt_fingerprint) ==
    LET sk_ent == LookupKey(kc, alt_fingerprint)
    IN  IF sk_ent = None THEN "Raise" ELSE MasterSkToPoolPk(sk_ent)

----------------------------------------------------------------------------
\* Job parameters (the args object of create_plot) and the inputs tried

DefaultArgs ==
    [size |-> MinPlotSize, phase |-> 0,
     farmer_public_key |-> FarmerHex, pool_public_key |-> PoolHex,
     pool_contract_address |-> None, alt_fingerprint |-> None,
     tmp_dir |-> "A", tmp2_dir |-> None, final_dir |-> "W",
     filename |-> [dir |-> "W", name |-> PlotName],
     plotid |-> None, memo |-> None]

\* every combination of the key options, at every size
KeyArgs ==
    {[DefaultArgs EXCEPT !.farmer_public_key = f, !.pool_public_key = p,
                         !.pool_contract_address = c, !.alt_fingerprint = fp,
                         !.size = k] :
        f \in {None, BadHex, FarmerHex}, p \in {None, BadHex, PoolHex},
        c \in {None, BadAddress, PoolAddress}, fp \in {None} \cup Fingerprints,
        k \in Sizes}

\* every combination of the directory options, at every phase
DirArgs ==
    {[DefaultArgs EXCEPT !.tmp_dir = t, !.tmp2_dir = t2, !.final_dir = fd,
                         !.filename = fn, !.phase = ph] :
        t \in {"A", "AB"}, t2 \in {None, "W", "A", "AB"}, fd \in {"W", "O"},
        fn \in FilePaths \cup {MissingAttr}, ph \in Phases}

\* every size, phase and debug override, in each pool variant
DispatchArgs ==
    {[DefaultArgs EXCEPT !.size = k, !.phase = ph, !.plotid = i, !.memo = m,
                         !.pool_public_key = pl[1], !.pool_contract_address = pl[2]] :
        k \in Sizes, ph \in Phases, i \in {None, "hexId"}, m \in {None, "hexMemo"},
        pl \in {<<PoolHex, None>>, <<None, PoolAddress>>, <<None, None>>}}

Args == KeyArgs \cup DirArgs \cup DispatchArgs

\* (args, test_private_keys supplied): the test-only list goes with DispatchArgs
Inputs == (Args \X {FALSE}) \cup (DispatchArgs \X {TRUE})

NoArgs == [DefaultArgs EXCEPT !.phase = 0 - 1]

InitLoc ==
    [farmer_public_key |-> None, pool_public_key |-> None,
     pool_contract_puzzle_hash |-> None, size |-> 0, tmp2_dir |-> None,
     tmp_dir_created |-> FALSE, tmp2_dir_created |-> FALSE,
     final_dir |-> None, plot_id |-> None, plot_memo |-> None, err |-> None]

InitHist ==
    [pre |-> {}, prefiles |-> {}, existed |-> "unchecked", lookups |-> 0, cleanup |-> {},
     warned |-> {}, made |-> {}, removed |-> {},
     cmd |-> [called |-> FALSE, size |-> 0, override_k |-> FALSE, exit |-> None]]

\* The disk before any job: the working directory exists, the others may,
\* a final file may already be there and A may hold intermediate tables.
InitDisks ==
    {d \in [dirs : SUBSET Paths, files : SUBSET (Paths \X {PlotName, TempName})] :
        /\ Cwd \in d.dirs
        /\ \A p \in d.dirs : Ancestors(p) \subseteq d.dirs
        /\ \A f \in d.files :
              /\ f[1] \in d.dirs
              /\ f[2] = PlotName => f[1] \in {"W", "O"}
              /\ f[2] = TempName => f[1] = "A"}

Init ==
    /\ \E d \in InitDisks : dirs = d.dirs /\ files = d.files
    /\ keychain \in Keychains
    /\ pc = [j \in Jobs |-> "Idle"]
    /\ args = [j \in Jobs |-> NoArgs]
    /\ test_private_keys = [j \in Jobs |-> FALSE]
    /\ loc = [j \in Jobs |-> InitLoc]
    /\ calls = [j \in Jobs |-> <<>>]
    /\ hist = [j \in Jobs |-> InitHist]

----------------------------------------------------------------------------
\* Steps of create_plot

Goto(j, label) == pc' = [pc EXCEPT ![j] = label]

\* an exception leaves create_plot: the job ends in the error state
Raise(j, e) ==
    /\ pc' = [pc EXCEPT ![j] = "Error"]
    /\ loc' = [loc EXCEPT ![j].err = e]

\* Begin with the temp directory created on entry, before the keys are
\* resolved
BeginMkdirFirst(j, a, t) ==
    /\ pc[j] = "Idle"
    /\ Goto(j, "ResolveFarmer")
    /\ args' = [args EXCEPT ![j] = a]
    /\ test_private_keys' = [test_private_keys EXCEPT ![j] = t]
    /\ loc' = [loc EXCEPT ![j].tmp2_dir =
                  IF a.tmp2_dir = None THEN a.tmp_dir ELSE a.tmp2_dir]
    /\ dirs' = mkdir(dirs, a.tmp_dir)
    /\ hist' = [hist EXCEPT ![j].pre = dirs, ![j].prefiles = files,
                            ![j].made = mkdir(dirs, a.tmp_dir) \ dirs]
    /\ UNCHANGED <<files, keychain, calls>>

\* entry, lines 47-52: the secondary temp directory defaults to the temp one
Begin(j, a, t) ==
    /\ pc[j] = "Idle"
    /\ Goto(j, "ResolveFarmer")
    /\ args' = [args EXCEPT ![j] = a]
    /\ test_private_keys' = [test_private_keys EXCEPT ![j] = t]
    /\ loc' = [loc EXCEPT ![j].tmp2_dir =
                  IF a.tmp2_dir = None THEN a.tmp_dir ELSE a.tmp2_dir]
    /\ hist' = [hist EXCEPT ![j].pre = dirs, ![j].prefiles = files]
    /\ UNCHANGED <<dirs, files, keychain, calls>>

\* ResolveFarmer with the explicit key also looked for in the key store
ResolveFarmerChecksStore(j) ==
    /\ pc[j] = "ResolveFarmer"
    /\ LET a == args[j]
           explicit == a.farmer_public_key # None
           key == IF explicit THEN G1FromHex(a.farmer_public_key)
                  ELSE get_farmer_public_key(keychain, a.alt_fingerprint)
       IN  /\ hist' = [hist EXCEPT ![j].lookups = @ + 1]
           /\ IF key = "Invalid" THEN Raise(j, "InvalidKeyEncoding")
              ELSE IF key = "Raise" THEN Raise(j, "NoKeyAvailable")
              ELSE /\ Goto(j, "ResolvePool")
                   /\ loc' = [loc EXCEPT ![j].farmer_public_key = key]
    /\ UNCHANGED <<dirs, files, keychain, args, test_private_keys, calls>>

\* lines 54-58
ResolveFarmer(j) ==
    /\ pc[j] = "ResolveFarmer"
    /\ LET a == args[j]
           explicit == a.farmer_public_key # None
           key == IF explicit THEN G1FromHex(a.farmer_public_key)
                  ELSE get_farmer_public_key(keychain, a.alt_fingerprint)
       IN  /\ hist' = [hist EXCEPT ![j].lookups = @ + (IF explicit THEN 0 ELSE 1)]
           /\ IF key = "Invalid" THEN Raise(j, "InvalidKeyEncoding")
              ELSE IF key = "Raise" THEN Raise(j, "NoKeyAvailable")
              ELSE /\ Goto(j, "ResolvePool")
                   /\ loc' = [loc EXCEPT ![j].farmer_public_key = key]
    /\ UNCHANGED <<dirs, files, keychain, args, test_private_keys, calls>>

\* ResolvePoolKeys with the key-store fallback also taken when a contract
\* address is given
ResolvePoolKeysBoth(a, kc) ==
    IF a.pool_public_key # None
    THEN IF a.pool_contract_address # None
         THEN [pk |-> None, ph |-> None, err |-> "ConflictingPoolSelection", lookups |-> 0]
         ELSE LET k == G1FromHex(a.pool_public_key)
              IN  IF k = "Invalid"
                  THEN [pk |-> None, ph |-> None, err |-> "InvalidKeyEncoding", lookups |-> 0]
                  ELSE [pk |-> k, ph |-> None, err |-> None, lookups |-> 0]
    ELSE LET k == get_pool_public_key(kc, a.alt_fingerprint)
             h == IF a.pool_contract_address = None THEN None
                  ELSE DecodePuzzleHash(a.pool_contract_address)
         IN  IF k = "Raise"
             THEN [pk |-> None, ph |-> None, err |-> "NoKeyAvailable", lookups |-> 1]
             ELSE IF h = "Invalid"
             THEN [pk |-> None, ph |-> None, err |-> "InvalidKeyEncoding", lookups |-> 1]
             ELSE [pk |-> k, ph |-> h, err |-> None, lookups |-> 1]

\* lines 60-72: the pool public key or the pool contract puzzle hash
ResolvePoolKeys(a, kc) ==
    IF a.pool_public_key # None
    THEN IF a.pool_contract_address # None
         THEN [pk |-> None, ph |-> None, err |-> "ConflictingPoolSelection", lookups |-> 0]
         ELSE LET k == G1FromHex(a.pool_public_key)
              IN  IF k = "Invalid"
                  THEN [pk |-> None, ph |-> None, err |-> "InvalidKeyEncoding", lookups |-> 0]
                  ELSE [pk |-> k, ph |-> None, err |-> None, lookups |-> 0]
    ELSE IF a.pool_contract_address = None
         THEN LET k == get_pool_public_key(kc, a.alt_fingerprint)
              IN  IF k = "Raise"
                  THEN [pk |-> None, ph |-> None, err |-> "NoKeyAvailable", lookups |-> 1]
                  ELSE [pk |-> k, ph |-> None, err |-> None, lookups |-> 1]
         ELSE LET h == DecodePuzzleHash(a.pool_contract_address)
              IN  IF h = "Invalid"
                  THEN [pk |-> None, ph |-> None, err |-> "InvalidKeyEncoding", lookups |-> 0]
                  ELSE [pk |-> None, ph |-> h, err |-> None, lookups |-> 0]

\* lines 60-74, with the assertion of line 74
ResolvePool(j) ==
    /\ pc[j] = "ResolvePool"
    /\ LET r == ResolvePoolKeys(args[j], keychain)
       IN  /\ hist' = [hist EXCEPT ![j].lookups = @ + r.lookups]
           /\ IF r.err # None THEN Raise(j, r.err)
              ELSE IF (r.pk = None) = (r.ph = None) THEN Raise(j, "AssertionError")
              ELSE /\ Goto(j, "CheckSize")
                   /\ loc' = [loc EXCEPT ![j].pool_public_key = r.pk,
                                         ![j].pool_contract_puzzle_hash = r.ph]
    /\ UNCHANGED <<dirs, files, keychain, args, test_private_keys, calls>>

\* FloorSize without the assignment of line 80 (the warning alone)
FloorSizeWarnOnly(k) == k

\* lines 78-80: args.size after the floor
FloorSize(k) == IF k < MinPlotSize THEN MinPlotSize ELSE k

\* lines 76-80 (line 76 only logs a warning)
CheckSize(j) ==
    /\ pc[j] = "CheckSize"
    /\ Goto(j, "MakeTmp")
    /\ loc' = [loc EXCEPT ![j].size = FloorSize(args[j].size)]
    /\ UNCHANGED <<dirs, files, keychain, args, test_private_keys, calls, hist>>

\* lines 94-97
MakeTmp(j) ==
    /\ pc[j] = "MakeTmp"
    /\ Goto(j, "MakeTmp2")
    /\ LET d == args[j].tmp_dir
       IN  IF d \notin dirs
           THEN /\ dirs' = mkdir(dirs, d)
                /\ loc' = [loc EXCEPT ![j].tmp_dir_created = TRUE]
                /\ hist' = [hist EXCEPT ![j].made = @ \cup (mkdir(dirs, d) \ dirs)]
           ELSE UNCHANGED <<dirs, loc, hist>>
    /\ UNCHANGED <<files, keychain, args, test_private_keys, calls>>

\* lines 99-102
MakeTmp2(j) ==
    /\ pc[j] = "MakeTmp2"
    /\ Goto(j, "FinalDir")
    /\ LET d == loc[j].tmp2_dir
       IN  IF d \notin dirs
           THEN /\ dirs' = mkdir(dirs, d)
                /\ loc' = [loc EXCEPT ![j].tmp2_dir_created = TRUE]
                /\ hist' = [hist EXCEPT ![j].made = @ \cup (mkdir(dirs, d) \ dirs)]
           ELSE UNCHANGED <<dirs, loc, hist>>
    /\ UNCHANGED <<files, keychain, args, test_private_keys, calls>>

\* line 106: Path.cwd() is the working directory of the process, whatever
\* path it is called on
FinalDirOf(full_path) == Cwd

\* lines 104-109: args.filename is read (Params of plotter.py has no such
\* attribute), the final directory is computed and created
FinalDir(j) ==
    /\ pc[j] = "FinalDir"
    /\ IF args[j].filename = MissingAttr
       THEN /\ Raise(j, "AttributeError")
            /\ UNCHANGED <<dirs, hist>>
       ELSE LET fd == FinalDirOf(args[j].filename)
            IN  /\ Goto(j, "Identity")
                /\ loc' = [loc EXCEPT ![j].final_dir = fd]
                /\ dirs' = mkdir(dirs, fd)
                /\ hist' = [hist EXCEPT ![j].made = @ \cup (mkdir(dirs, fd) \ dirs)]
    /\ UNCHANGED <<files, keychain, args, test_private_keys, calls>>

\* the per-plot keys AugSchemeMPL.key_gen(token_bytes(32)) can return
SecretKeys == {"r1", "r2"}

\* lines 119-128: plot id and memo of the resolved keys and the per-plot key
DerivedPlotId(l, sk) ==
    LET plot_public_key == "ppk(local(" \o sk \o ")," \o l.farmer_public_key \o ")"
    IN  IF l.pool_public_key # None
        THEN "id_pk(" \o l.pool_public_key \o "," \o plot_public_key \o ")"
        ELSE "id_ph(" \o l.pool_contract_puzzle_hash \o "," \o plot_public_key \o ")"

DerivedMemo(l, sk) ==
    IF l.pool_public_key # None
    THEN "memo_pk(" \o l.pool_public_key \o "," \o l.farmer_public_key \o "," \o sk \o ")"
    ELSE "memo_ph(" \o l.pool_contract_puzzle_hash \o "," \o l.farmer_public_key \o "," \o sk \o ")"

\* Identity with the overrides of lines 130-136 left out
IdentityNoOverride(j) ==
    /\ pc[j] = "Identity"
    /\ IF test_private_keys[j]
       THEN Raise(j, "NameError")
       ELSE \E sk \in SecretKeys :
              /\ Goto(j, "ExistenceCheck")
              /\ loc' = [loc EXCEPT ![j].plot_id = DerivedPlotId(loc[j], sk),
                                    ![j].plot_memo = DerivedMemo(loc[j], sk)]
    /\ UNCHANGED <<dirs, files, keychain, args, test_private_keys, calls, hist>>

\* lines 111-140: a supplied test_private_keys reaches the undefined name
\* num of line 113; otherwise a random key, the derivation and the overrides
Identity(j) ==
    /\ pc[j] = "Identity"
    /\ IF test_private_keys[j]
       THEN Raise(j, "NameError")
       ELSE \E sk \in SecretKeys :
              /\ Goto(j, "ExistenceCheck")
              /\ loc' = [loc EXCEPT
                    ![j].plot_id = IF args[j].plotid # None
                                   THEN "bytes32(" \o args[j].plotid \o ")"
                                   ELSE DerivedPlotId(loc[j], sk),
                    ![j].plot_memo = IF args[j].memo # None
                                     THEN "bytes(" \o args[j].memo \o ")"
                                     ELSE DerivedMemo(loc[j], sk)]
    /\ UNCHANGED <<dirs, files, keychain, args, test_private_keys, calls, hist>>

\* ExistenceCheck with the engine branch taken whatever the check says
ExistenceCheckIgnored(j) ==
    /\ pc[j] = "ExistenceCheck"
    /\ Goto(j, "Dispatch")
    /\ hist' = [hist EXCEPT ![j].existed =
                  IF FileExists(files, args[j].filename) THEN "present" ELSE "absent"]
    /\ UNCHANGED <<dirs, files, keychain, args, test_private_keys, loc, calls>>

\* ExistenceCheck with a lock on the path: a job also skips when another
\* job has found the same path absent and is about to call the engine
ExistenceCheckLocked(j) ==
    /\ pc[j] = "ExistenceCheck"
    /\ IF \/ FileExists(files, args[j].filename)
          \/ \E i \in Jobs \ {j} :
                pc[i] = "Dispatch" /\ args[i].filename = args[j].filename
       THEN /\ Goto(j, "CleanupTmp")
            /\ hist' = [hist EXCEPT ![j].existed = "present"]
       ELSE /\ Goto(j, "Dispatch")
            /\ hist' = [hist EXCEPT ![j].existed = "absent"]
    /\ UNCHANGED <<dirs, files, keychain, args, test_private_keys, loc, calls>>

\* line 144: full_path.exists()
ExistenceCheck(j) ==
    /\ pc[j] = "ExistenceCheck"
    /\ IF FileExists(files, args[j].filename)
       THEN /\ Goto(j, "CleanupTmp")
            /\ hist' = [hist EXCEPT ![j].existed = "present"]
       ELSE /\ Goto(j, "Dispatch")
            /\ hist' = [hist EXCEPT ![j].existed = "absent"]
    /\ UNCHANGED <<dirs, files, keychain, args, test_private_keys, loc, calls>>

\* lines 148-192: the entry point chosen by args.phase and its arguments
\* (phase 1 passes args.final_dir, phases 0 and 2 the computed final_dir;
\* phase 2 passes neither memo nor plot id)
EngineCall(a, l) ==
    [entry |-> CASE a.phase = 0 -> "create_plot_disk"
                 [] a.phase = 1 -> "create_plot_disk_phase1"
                 [] OTHER       -> "create_plot_disk_phase234",
     tmp_dir |-> a.tmp_dir, tmp2_dir |-> l.tmp2_dir,
     final_dir |-> IF a.phase = 1 THEN a.final_dir ELSE l.final_dir,
     filename |-> a.filename.name, size |-> l.size,
     plot_memo |-> IF a.phase = 2 THEN None ELSE l.plot_memo,
     plot_id |-> IF a.phase = 2 THEN None ELSE l.plot_id]

\* lines 148, 164, 180: the phases that have a branch
HasEntryPoint(phase) == phase \in {0, 1, 2}

\* What a call of the plotting engine can do to the disk: it fails or
\* returns; it may leave or clear its tables in the two temp directories;
\* the single-shot and the phase-2-4 entries write the final file, phase 1
\* leaves tables in the temp directory, phase 2-4 needs them there.
EngineResults(c, ds, fs) ==
    LET temps == {<<d, TempName>> : d \in {c.tmp_dir, c.tmp2_dir} \cap ds}
        kept == fs \ temps
        final == <<c.final_dir, c.filename>>
        table == <<c.tmp_dir, TempName>>
        ready == {c.tmp_dir, c.tmp2_dir, c.final_dir} \subseteq ds
        fails == {[raised |-> TRUE, files |-> kept \cup t] : t \in SUBSET temps}
        returns ==
            CASE c.entry = "create_plot_disk" ->
                   IF ready
                   THEN {[raised |-> FALSE, files |-> kept \cup t \cup {final}] :
                            t \in SUBSET temps}
                   ELSE {}
              [] c.entry = "create_plot_disk_phase1" ->
                   IF {c.tmp_dir, c.tmp2_dir} \subseteq ds
                   THEN {[raised |-> FALSE, files |-> kept \cup t \cup {table}] :
                            t \in SUBSET temps}
                   ELSE {}
              [] OTHER ->
                   IF ready /\ table \in fs
                   THEN {[raised |-> FALSE, files |-> kept \cup t \cup {final}] :
                            t \in SUBSET temps}
                   ELSE {}
    IN  fails \cup returns

\* Dispatch with the engine's exception caught and the job going on
DispatchSwallows(j) ==
    /\ pc[j] = "Dispatch"
    /\ IF HasEntryPoint(args[j].phase)
       THEN LET c == EngineCall(args[j], loc[j])
            IN  \E r \in EngineResults(c, dirs, files) :
                  /\ calls' = [calls EXCEPT ![j] = Append(@, c)]
                  /\ files' = r.files
                  /\ Goto(j, "CleanupTmp")
                  /\ loc' = [loc EXCEPT ![j].err =
                                IF r.raised THEN "PlottingEngineFailure" ELSE @]
       ELSE /\ Goto(j, "CleanupTmp")
            /\ UNCHANGED <<files, calls, loc>>
    /\ UNCHANGED <<dirs, keychain, args, test_private_keys, hist>>

\* lines 148-192: the engine call; an exception of the engine leaves
\* create_plot at once
Dispatch(j) ==
    /\ pc[j] = "Dispatch"
    /\ IF HasEntryPoint(args[j].phase)
       THEN LET c == EngineCall(args[j], loc[j])
            IN  \E r \in EngineResults(c, dirs, files) :
                  /\ calls' = [calls EXCEPT ![j] = Append(@, c)]
                  /\ files' = r.files
                  /\ IF r.raised
                     THEN Raise(j, "PlottingEngineFailure")
                     ELSE Goto(j, "CleanupTmp") /\ UNCHANGED loc
       ELSE /\ Goto(j, "CleanupTmp")
            /\ UNCHANGED <<files, calls, loc>>
    /\ UNCHANGED <<dirs, keychain, args, test_private_keys, hist>>

\* RemoveOwned with the created directory removed together with the files
\* in it
RemoveOwnedTree(j, step, d, created, next) ==
    /\ Goto(j, next)
    /\ IF created /\ d \in dirs /\ (\A c \in dirs : Parent(c) # d)
       THEN /\ dirs' = dirs \ {d}
            /\ files' = {f \in files : f[1] # d}
            /\ hist' = [hist EXCEPT ![j].cleanup = @ \cup {step},
                                    ![j].removed = @ \cup {d}]
       ELSE /\ dirs' = dirs
            /\ files' = files
            /\ hist' = [hist EXCEPT ![j].cleanup = @ \cup {step},
                                    ![j].warned = IF created THEN @ \cup {d} ELSE @]
    /\ UNCHANGED <<keychain, args, test_private_keys, loc, calls>>

\* the body of both cleanup steps: rmdir of a directory flagged as created,
\* a failure only logged
RemoveOwned(j, step, d, created, next) ==
    /\ Goto(j, next)
    /\ IF created /\ RmdirOk(dirs, files, d)
       THEN /\ dirs' = dirs \ {d}
            /\ hist' = [hist EXCEPT ![j].cleanup = @ \cup {step},
                                    ![j].removed = @ \cup {d}]
       ELSE /\ dirs' = dirs
            /\ hist' = [hist EXCEPT ![j].cleanup = @ \cup {step},
                                    ![j].warned = IF created THEN @ \cup {d} ELSE @]
    /\ UNCHANGED <<files, keychain, args, test_private_keys, loc, calls>>

\* CleanupTmp without the test of tmp_dir_created
CleanupTmpUnowned(j) ==
    /\ pc[j] = "CleanupTmp"
    /\ RemoveOwned(j, "tmp", args[j].tmp_dir, TRUE, "CleanupTmp2")

\* lines 198-202
CleanupTmp(j) ==
    /\ pc[j] = "CleanupTmp"
    /\ RemoveOwned(j, "tmp", args[j].tmp_dir, loc[j].tmp_dir_created, "CleanupTmp2")

\* lines 204-211
CleanupTmp2(j) ==
    /\ pc[j] = "CleanupTmp2"
    /\ RemoveOwned(j, "tmp2", loc[j].tmp2_dir, loc[j].tmp2_dir_created, "Done")

----------------------------------------------------------------------------
\* One invocation of create_plot, run to its end

Start(j) ==
    /\ \A i \in Jobs : pc[i] = "Idle" /\ i >= j
    /\ \E inp \in Inputs : Begin(j, inp[1], inp[2])

Step(j) ==
    \/ ResolveFarmer(j)
    \/ ResolvePool(j)
    \/ CheckSize(j)
    \/ MakeTmp(j)
    \/ MakeTmp2(j)
    \/ FinalDir(j)
    \/ Identity(j)
    \/ ExistenceCheck(j)
    \/ Dispatch(j)
    \/ CleanupTmp(j)
    \/ CleanupTmp2(j)

Next == \E j \in Jobs : Start(j) \/ Step(j)

Spec == Init /\ [][Next]_vars

Terminated(j) == pc[j] \in {"Done", "Error"}

TypeOK ==
    /\ dirs \subseteq Paths
    /\ files \subseteq Paths \X {PlotName, TempName}
    /\ \A f \in files : f[1] \in dirs
    /\ \A p \in dirs : Ancestors(p) \subseteq dirs

----------------------------------------------------------------------------
\* A job followed by a second invocation on the disk the first one left:
\* the same parameters again, or the same with another phase selector

RerunArgs ==
    {[DefaultArgs EXCEPT !.tmp_dir = t, !.tmp2_dir = t2, !.filename = fn,
                         !.phase = ph] :
        t \in {"A", "AB"}, t2 \in {None, "A", "AB"}, fn \in FilePaths,
        ph \in Phases}

StartFirst(j) ==
    /\ \A i \in Jobs : pc[i] = "Idle" /\ i >= j
    /\ \E a \in RerunArgs : Begin(j, a, FALSE)

StartAgain(j) ==
    /\ \E i \in Jobs : i < j /\ Terminated(i)
    /\ \A i \in Jobs : i # j => pc[i] = "Idle" \/ Terminated(i)
    /\ \E i \in Jobs, ph \in Phases :
          /\ i < j
          /\ Terminated(i)
          /\ Begin(j, [args[i] EXCEPT !.phase = ph], test_private_keys[i])

NextRerun == \E j \in Jobs : StartFirst(j) \/ StartAgain(j) \/ Step(j)

InitRerun == Init /\ keychain = <<"fp1">>

SpecRerun == InitRerun /\ [][NextRerun]_vars

----------------------------------------------------------------------------
\* Two invocations of create_plot running at the same time on one disk,
\* their steps interleaved

ConcArgs ==
    {[DefaultArgs EXCEPT !.phase = ph, !.filename = fn] :
        ph \in Phases, fn \in FilePaths}

StartConc(j) == \E a \in ConcArgs : Begin(j, a, FALSE)

NextConc == \E j \in Jobs : StartConc(j) \/ Step(j)

InitConc == Init /\ keychain = <<"fp1">> /\ files = {}

SpecConc == InitConc /\ [][NextConc]_vars

----------------------------------------------------------------------------
\* The create command of plotter.py in front of create_plot

FarmMinSize == 32
CliMinSize == 25
CliSizes == {CliMinSize - 1, CliMinSize, FarmMinSize - 1, FarmMinSize}

\* the Params object built from the command's options: it has no filename
Params(size, phase, farmer_public_key, tmp_dir) ==
    [DefaultArgs EXCEPT !.size = size, !.phase = phase,
                        !.farmer_public_key = farmer_public_key,
                        !.pool_public_key = None, !.tmp_dir = tmp_dir,
                        !.filename = MissingAttr]

\* CliGate with the override flag lifting every size check
CliGateOverrideAny(size, override_k) ==
    IF size < FarmMinSize /\ ~override_k THEN "exit" ELSE "create_plot"

\* the size checks before the call of create_plot
CliGate(size, override_k) ==
    IF size < FarmMinSize /\ ~override_k THEN "exit"
    ELSE IF size < CliMinSize /\ override_k THEN "exit"
    ELSE "create_plot"

\* One run of the command.  plotter.py never imports sys, so sys.exit(1)
\* raises NameError; nothing catches it and the interpreter ends the process
\* with status 1.  Otherwise create_plot is entered (its lines 47-52) with
\* the Params object.
create_cmd(j) ==
    /\ \A i \in Jobs : pc[i] = "Idle" /\ i >= j
    /\ \E size \in CliSizes, override_k \in BOOLEAN, phase \in Phases,
          f \in {None, FarmerHex}, t \in {"A", "AB"} :
          IF CliGate(size, override_k) = "exit"
          THEN /\ pc' = [pc EXCEPT ![j] = "Exit"]
               /\ loc' = [loc EXCEPT ![j].err = "NameError"]
               /\ hist' = [hist EXCEPT ![j].cmd =
                             [called |-> TRUE, size |-> size,
                              override_k |-> override_k, exit |-> "1"]]
               /\ UNCHANGED <<args, test_private_keys>>
          ELSE /\ Goto(j, "ResolveFarmer")
               /\ args' = [args EXCEPT ![j] = Params(size, phase, f, t)]
               /\ test_private_keys' = [test_private_keys EXCEPT ![j] = FALSE]
               /\ loc' = [loc EXCEPT ![j].tmp2_dir = t]
               /\ hist' = [hist EXCEPT ![j].pre = dirs, ![j].prefiles = files,
                                       ![j].cmd =
                             [called |-> TRUE, size |-> size,
                              override_k |-> override_k, exit |-> None]]
    /\ UNCHANGED <<dirs, files, keychain, calls>>

NextCli == \E j \in Jobs : create_cmd(j) \/ Start(j) \/ Step(j)

SpecCli == Init /\ [][NextCli]_vars

----------------------------------------------------------------------------
\* Properties

Started(j) == pc[j] # "Idle"
InCleanup(j) == pc[j] \in {"CleanupTmp", "CleanupTmp2"}
TempDirs(j) == {args[j].tmp_dir, loc[j].tmp2_dir}
BothPoolOptions(j) ==
    args[j].pool_public_key # None /\ args[j].pool_contract_address # None
ExactlyOnePool(j) ==
    (loc[j].pool_public_key = None) # (loc[j].pool_contract_puzzle_hash = None)
ExpectedSize(j) ==
    IF args[j].size < MinPlotSize THEN MinPlotSize ELSE args[j].size

\* C1: a job whose existence check found the final file makes no engine
\* call, goes on through both cleanup steps (each of which can run) and ends
\* in Done, never in the error state.
C1_IdempotentSkip ==
    \A j \in Jobs :
        hist[j].existed = "present" =>
            /\ calls[j] = <<>>
            /\ InCleanup(j) \/ pc[j] = "Done"
            /\ loc[j].err = None
            /\ pc[j] = "CleanupTmp" => ENABLED CleanupTmp(j)
            /\ pc[j] = "CleanupTmp2" => ENABLED CleanupTmp2(j)
            /\ pc[j] = "Done" => hist[j].cleanup = {"tmp", "tmp2"}

C1_Witness ==
    \E j \in Jobs :
        /\ hist[j].existed = "present"
        /\ pc[j] = "Done"
        /\ hist[j].cleanup = {"tmp", "tmp2"}

\* C2 (as claimed): a job that made an engine call has run both cleanup
\* steps by the time it is in a terminal state, Done or error.
C2_CleanupAfterEveryCall ==
    \A j \in Jobs :
        (Terminated(j) /\ calls[j] # <<>>) => hist[j].cleanup = {"tmp", "tmp2"}

\* C3 (as claimed): a job that found no final file and reached Done made
\* exactly one engine call, to the entry point of its phase selector.
C3_ExactlyOneEntryPoint ==
    \A j \in Jobs :
        (pc[j] = "Done" /\ hist[j].existed = "absent") =>
            /\ Len(calls[j]) = 1
            /\ args[j].phase = 0 => calls[j][1].entry = "create_plot_disk"
            /\ args[j].phase = 1 => calls[j][1].entry = "create_plot_disk_phase1"
            /\ args[j].phase = 2 => calls[j][1].entry = "create_plot_disk_phase234"

\* C4 (as claimed): a job given both a pool public key and a pool contract
\* address ends in ConflictingPoolSelection and calls no engine entry point.
C4_ConflictAlwaysRejected ==
    \A j \in Jobs :
        (Terminated(j) /\ BothPoolOptions(j)) =>
            /\ pc[j] = "Error"
            /\ loc[j].err = "ConflictingPoolSelection"
            /\ calls[j] = <<>>

\* C5: once key resolution is over without error exactly one of the pool
\* public key and the pool contract puzzle hash is set, in every later step
\* and at every engine call, and the assertion of line 74 never fails.
C5_ExactlyOnePool ==
    \A j \in Jobs :
        /\ loc[j].err # "AssertionError"
        /\ pc[j] \notin {"Idle", "ResolveFarmer", "ResolvePool", "Error"}
              => ExactlyOnePool(j)
        /\ loc[j].err \in {"AttributeError", "NameError", "PlottingEngineFailure"}
              => ExactlyOnePool(j)
        /\ calls[j] # <<>> => ExactlyOnePool(j)

C5_Witness ==
    \E j \in Jobs :
        /\ calls[j] # <<>>
        /\ args[j].pool_contract_address # None
        /\ loc[j].pool_contract_puzzle_hash # None
        /\ loc[j].pool_public_key = None

\* C6: a temp or secondary temp directory that existed when the job
\* started exists in every later state of the job, and the job removes no
\* directory that existed when it started.
C6_PreexistingKept ==
    \A j \in Jobs :
        Started(j) =>
            /\ \A d \in TempDirs(j) : d \in hist[j].pre => d \in dirs
            /\ hist[j].removed \cap hist[j].pre = {}

C6_Witness ==
    \E j \in Jobs :
        /\ pc[j] = "Done"
        /\ args[j].tmp_dir \in hist[j].pre
        /\ args[j].tmp_dir \in dirs
        /\ IsEmptyDir(dirs, files, args[j].tmp_dir)
        /\ hist[j].removed # {}

\* C7 (as claimed): at Done every temp directory this job created is gone
\* or not empty.
C7_CreatedEmptyRemoved ==
    \A j \in Jobs :
        pc[j] = "Done" =>
            \A d \in TempDirs(j) \cap hist[j].made :
                d \in dirs => ~IsEmptyDir(dirs, files, d)

\* C8 (as claimed): after a phase-0 job that reached Done with its engine
\* call made, a later job with the same parameters finds the file at its
\* existence check, calls no engine entry point and, at Done, leaves the
\* disk as it found it.
C8_RerunSkips ==
    \A i \in Jobs, j \in Jobs :
        (/\ i < j
         /\ pc[i] = "Done"
         /\ args[i].phase = 0
         /\ Len(calls[i]) = 1
         /\ Started(j)
         /\ args[j] = args[i]
         /\ hist[j].existed # "unchecked") =>
            /\ hist[j].existed = "present"
            /\ calls[j] = <<>>
            /\ pc[j] = "Done" => (dirs = hist[j].pre /\ files = hist[j].prefiles)

\* C9: every engine call gets max(k, 22) as its size, the size kept after
\* the floor step is that value, and an error after key resolution is one
\* of the later steps' errors, never one about k.
C9_SizeFloor ==
    \A j \in Jobs :
        /\ \A n \in 1..Len(calls[j]) : calls[j][n].size = ExpectedSize(j)
        /\ pc[j] \in {"MakeTmp", "MakeTmp2", "FinalDir", "Identity", "ExistenceCheck",
                      "Dispatch", "CleanupTmp", "CleanupTmp2", "Done"}
              => loc[j].size = ExpectedSize(j)
        /\ (pc[j] = "Error" /\ ExactlyOnePool(j))
              => /\ loc[j].size = ExpectedSize(j)
                 /\ loc[j].err \in {"AttributeError", "NameError", "PlottingEngineFailure"}

C9_Witness ==
    \E j \in Jobs :
        /\ calls[j] # <<>>
        /\ args[j].size < MinPlotSize
        /\ calls[j][1].size = MinPlotSize

\* C10 (as claimed): from the existence check on, the final directory of
\* the job parameters exists and the job has not removed it.
C10_FinalDirExists ==
    \A j \in Jobs :
        hist[j].existed # "unchecked" =>
            /\ args[j].final_dir \in dirs
            /\ args[j].final_dir \notin hist[j].removed


NeedsFarmerLookup(j) == args[j].farmer_public_key = None
NeedsPoolLookup(j) ==
    args[j].pool_public_key = None /\ args[j].pool_contract_address = None
\* the key the claimed lookup rule selects: the one of the fingerprint when
\* one is given, the first one otherwise, or none
ClaimedKey(j) ==
    IF args[j].alt_fingerprint # None
    THEN IF \E n \in 1..Len(keychain) : keychain[n] = args[j].alt_fingerprint
         THEN "sk:" \o args[j].alt_fingerprint ELSE None
    ELSE IF keychain = <<>> THEN None ELSE "sk:" \o keychain[1]
NoKey(j) == pc[j] = "Error" /\ loc[j].err = "NoKeyAvailable"

\* C11: a job that needs the farmer key from the key store and whose lookup
\* (by fingerprint when one is given, first key otherwise) finds nothing ends
\* in NoKeyAvailable, and so does one that got its farmer key and needs the
\* pool key from the store; a key taken from the store is derived from the
\* key that rule selects; NoKeyAvailable arises in no other case.
C11_NoKeyAvailable ==
    \A j \in Jobs :
        /\ (pc[j] \notin {"Idle", "ResolveFarmer"} /\ NeedsFarmerLookup(j))
              => IF ClaimedKey(j) = None THEN NoKey(j)
                 ELSE loc[j].farmer_public_key = MasterSkToFarmerPk(ClaimedKey(j))
        /\ (pc[j] \notin {"Idle", "ResolveFarmer", "ResolvePool"}
              /\ loc[j].farmer_public_key # None /\ NeedsPoolLookup(j))
              => IF ClaimedKey(j) = None THEN NoKey(j)
                 ELSE loc[j].pool_public_key = MasterSkToPoolPk(ClaimedKey(j))
        /\ loc[j].err = "NoKeyAvailable"
              => /\ ClaimedKey(j) = None
                 /\ NeedsFarmerLookup(j) \/ NeedsPoolLookup(j)
                 /\ calls[j] = <<>>

C11_Witness ==
    \E j \in Jobs :
        /\ NoKey(j)
        /\ args[j].alt_fingerprint = "fp2"
        /\ keychain = <<"fp1">>


KeyErrors ==
    {"NoKeyAvailable", "ConflictingPoolSelection", "InvalidKeyEncoding", "AssertionError"}
WithoutOverrides(a) == [a EXCEPT !.plotid = None, !.memo = None]
TakesIdentity(c) == c.entry \in {"create_plot_disk", "create_plot_disk_phase1"}

\* C12: in every step, each phase-0 or phase-1 engine call made so far
\* carries the supplied plot id (memo) when one is supplied and otherwise the
\* one derived from the resolved keys and one per-plot key; no plot id or
\* memo is set before the identity step, which leaves the resolved keys as
\* they are; and the pool keys or the key error of the job are those of the
\* same parameters without overrides.
C12_DebugOverride ==
    [][\A j \in Jobs :
        /\ \A n \in 1..Len(calls'[j]) :
              TakesIdentity(calls'[j][n]) =>
                 \E sk \in SecretKeys :
                    /\ calls'[j][n].plot_id =
                          IF args'[j].plotid # None
                          THEN "bytes32(" \o args'[j].plotid \o ")"
                          ELSE DerivedPlotId(loc'[j], sk)
                    /\ calls'[j][n].plot_memo =
                          IF args'[j].memo # None
                          THEN "bytes(" \o args'[j].memo \o ")"
                          ELSE DerivedMemo(loc'[j], sk)
        /\ (pc[j] = "Identity" /\ pc'[j] # "Identity") =>
              /\ loc'[j].farmer_public_key = loc[j].farmer_public_key
              /\ loc'[j].pool_public_key = loc[j].pool_public_key
              /\ loc'[j].pool_contract_puzzle_hash = loc[j].pool_contract_puzzle_hash
        /\ (pc'[j] \in {"Idle", "ResolveFarmer", "ResolvePool", "CheckSize", "MakeTmp",
                        "MakeTmp2", "FinalDir", "Identity"}
              \/ loc'[j].err \in KeyErrors) =>
              loc'[j].plot_id = None /\ loc'[j].plot_memo = None
        /\ (pc'[j] \notin {"Idle", "ResolveFarmer", "ResolvePool"}
              /\ loc'[j].farmer_public_key # None) =>
              LET r == ResolvePoolKeys(WithoutOverrides(args'[j]), keychain')
              IN  IF r.err # None THEN pc'[j] = "Error" /\ loc'[j].err = r.err
                  ELSE /\ loc'[j].pool_public_key = r.pk
                       /\ loc'[j].pool_contract_puzzle_hash = r.ph
                       /\ loc'[j].err \notin KeyErrors
      ]_vars

C12_Witness ==
    \E j \in Jobs :
        /\ calls[j] # <<>>
        /\ args[j].plotid # None
        /\ args[j].memo = None
        /\ calls[j][1].entry = "create_plot_disk_phase1"
        /\ calls[j][1].plot_id = "bytes32(hexId)"
        /\ calls[j][1].plot_memo # "bytes(hexMemo)"


\* C13 (as claimed): a job given both pool options has read the key store
\* at no point and ends in ConflictingPoolSelection.
C13_ConflictBeforeLookup ==
    \A j \in Jobs :
        (Started(j) /\ BothPoolOptions(j)) =>
            /\ hist[j].lookups = 0
            /\ Terminated(j) => loc[j].err = "ConflictingPoolSelection"

\* C14: a job makes at most one engine call; one whose engine call raised
\* is in the error state with PlottingEngineFailure and that single call;
\* and a job in the error state takes no further step.
C14_EngineFailureFatal ==
    \A j \in Jobs :
        /\ Len(calls[j]) <= 1
        /\ loc[j].err = "PlottingEngineFailure"
              => pc[j] = "Error" /\ Len(calls[j]) = 1
        /\ pc[j] = "Error" => ~ENABLED Step(j)

C14_Witness ==
    \E j \in Jobs :
        /\ pc[j] = "Error"
        /\ loc[j].err = "PlottingEngineFailure"
        /\ Len(calls[j]) = 1


\* C15: with two jobs interleaved, the existence check of a job is decided
\* by the disk at that moment alone: it goes on to the engine call exactly
\* when the file is not there then, whatever the other job is doing, and it
\* skips exactly when the file is there; a job that skipped makes no call.
C15_CheckSeesDiskOnly ==
    [][\A j \in Jobs :
        /\ (pc[j] = "ExistenceCheck" /\ pc'[j] # "ExistenceCheck") =>
              /\ pc'[j] = "Dispatch" <=> ~FileExists(files, args[j].filename)
              /\ pc'[j] = "CleanupTmp" <=> FileExists(files, args[j].filename)
        /\ hist'[j].existed = "present" => calls'[j] = <<>>
      ]_vars

\* both jobs found the same path absent and both made the single-shot call
\* for it, each call returning
C15_Witness ==
    /\ args[1].filename = args[2].filename
    /\ \A j \in Jobs :
          /\ hist[j].existed = "absent"
          /\ Len(calls[j]) = 1
          /\ calls[j][1].entry = "create_plot_disk"
          /\ pc[j] \in {"CleanupTmp", "CleanupTmp2", "Done"}
    /\ calls[1][1].final_dir = calls[2][1].final_dir
    /\ calls[1][1].filename = calls[2][1].filename


\* job i is a finished phase-1 job whose engine call returned
Phase1Done(i) ==
    pc[i] = "Done" /\ args[i].phase = 1 /\ Len(calls[i]) = 1
\* job j is a phase-2 job started after it with otherwise the same parameters
Phase2After(i, j) ==
    i < j /\ Phase1Done(i) /\ Started(j) /\ args[j] = [args[i] EXCEPT !.phase = 2]
Table(j) == <<args[j].tmp_dir, TempName>>

\* C16: once a phase-1 job is Done with its call made, its tables are in
\* the temp directory and its final file path is still absent; a phase-2
\* job started afterwards with the same parameters finds the tables there
\* until its engine call, is not skipped, and is past the engine call only
\* with one create_plot_disk_phase234 call made, whose final file is then on
\* disk unless the call raised; a cleanup step changes no file and removes
\* only an empty directory.
C16_PhasePipeline ==
    [][/\ \A i \in Jobs :
            (Phase1Done(i)' /\ \A j \in Jobs \ {i} : pc'[j] = "Idle") =>
                /\ Table(i)' \in files'
                /\ ~FileExists(files', args'[i].filename)
       /\ \A i \in Jobs, j \in Jobs :
            Phase2After(i, j)' =>
                /\ hist'[j].existed # "present"
                /\ pc'[j] \in {"ResolveFarmer", "ResolvePool", "CheckSize", "MakeTmp",
                               "MakeTmp2", "FinalDir", "Identity", "ExistenceCheck",
                               "Dispatch"} => Table(j)' \in files'
                /\ pc'[j] \in {"CleanupTmp", "CleanupTmp2", "Done"} =>
                      /\ Len(calls'[j]) = 1
                      /\ calls'[j][1].entry = "create_plot_disk_phase234"
                      /\ <<calls'[j][1].final_dir, calls'[j][1].filename>> \in files'
                /\ pc'[j] = "Error" =>
                      /\ loc'[j].err = "PlottingEngineFailure"
                      /\ Len(calls'[j]) = 1
                      /\ calls'[j][1].entry = "create_plot_disk_phase234"
       /\ \A j \in Jobs :
            (InCleanup(j) /\ pc'[j] # pc[j]) =>
                /\ files' = files
                /\ \A d \in dirs \ dirs' : IsEmptyDir(dirs, files, d)
      ]_vars

C16_Witness ==
    \E i \in Jobs, j \in Jobs :
        /\ Phase2After(i, j)
        /\ pc[j] = "Done"
        /\ Len(calls[j]) = 1
        /\ calls[j][1].entry = "create_plot_disk_phase234"
        /\ <<calls[j][1].final_dir, calls[j][1].filename>> \in files
        /\ hist[i].warned # {}


CoreInvoked(j) == pc[j] \notin {"Idle", "Exit"}

\* C18: a run of the create command has entered create_plot exactly when
\* size >= 32, or override-k is set and size >= 25; every other run has ended
\* with exit status 1 with create_plot not entered (no parameters handed
\* over, no lookup, directory or engine call made), so a job started by the
\* command never has a size below 25.
C18_CliSizeGate ==
    \A j \in Jobs :
        hist[j].cmd.called =>
            LET size == hist[j].cmd.size
                override_k == hist[j].cmd.override_k
                ok == size >= 32 \/ (override_k /\ size >= 25)
            IN  /\ CoreInvoked(j) <=> ok
                /\ ~ok => /\ pc[j] = "Exit"
                          /\ hist[j].cmd.exit = "1"
                          /\ args[j] = NoArgs
                          /\ calls[j] = <<>>
                          /\ hist[j].lookups = 0
                          /\ hist[j].made = {}
                /\ CoreInvoked(j) => args[j].size = size /\ args[j].size >= 25

C18_Witness ==
    \E j \in Jobs :
        /\ hist[j].cmd.called
        /\ hist[j].cmd.override_k
        /\ hist[j].cmd.size = 24
        /\ pc[j] = "Exit"
        /\ hist[j].cmd.exit = "1"


\* the fatal input errors of key resolution
InputErrors == {"NoKeyAvailable", "ConflictingPoolSelection", "InvalidKeyEncoding"}

\* C19: a job that ended in NoKeyAvailable, ConflictingPoolSelection or
\* InvalidKeyEncoding has created no directory, has left the directories and
\* files exactly as they were when it started, has removed nothing and has
\* made no engine call.
C19_InputErrorsTouchNothing ==
    \A j \in Jobs :
        loc[j].err \in InputErrors =>
            /\ pc[j] = "Error"
            /\ hist[j].made = {}
            /\ hist[j].removed = {}
            /\ dirs = hist[j].pre
            /\ files = hist[j].prefiles
            /\ ~loc[j].tmp_dir_created
            /\ ~loc[j].tmp2_dir_created
            /\ loc[j].final_dir = None
            /\ calls[j] = <<>>

C19_Witness ==
    \E j \in Jobs :
        /\ pc[j] = "Error"
        /\ loc[j].err = "InvalidKeyEncoding"
        /\ args[j].farmer_public_key = None
        /\ hist[j].lookups = 1
        /\ args[j].tmp_dir \notin dirs
        /\ calls[j] = <<>>


\* C20 (as claimed): every engine call a job has made was given the final
\* directory of the job parameters, and that directory with the file name
\* given is the path tested by the existence check (args.filename).
C20_CheckedPathIsWrittenPath ==
    \A j \in Jobs :
        \A n \in 1..Len(calls[j]) :
            LET c == calls[j][n]
            IN  /\ c.final_dir = args[j].final_dir
                /\ [dir |-> c.final_dir, name |-> c.filename] = args[j].filename

====
